---------------------------- MODULE Spec2Model ----------------------------
(***************************************************************************)
(* Model of streamlit_chatbot_memoria_groq.py: a Streamlit chat page that  *)
(* keeps the conversation in st.session_state.messages and sends the       *)
(* trailing window of it to the Groq chat-completion API.                  *)
(*                                                                         *)
(* Streamlit re-executes the whole script, top to bottom, once per user    *)
(* interaction; a button or the chat input is truthy only in the run its   *)
(* own click or submission triggered.  Each action below is one such run.  *)
(*                                                                         *)
(* Texts are sequences of Unicode code points, so that formatting          *)
(* (str.upper, f-strings, str.join) is computed and not assumed.           *)
(***************************************************************************)
EXTENDS Integers, Sequences, FiniteSets, TLC

VARIABLES
    secrets,        \* st.secrets.get("GROQ_API_KEY", None)
    env,            \* os.getenv("GROQ_API_KEY")
    session_keys,   \* the keys present in st.session_state
    messages,       \* st.session_state.messages (<<>> while the key is absent)
    model_name,     \* st.session_state.model_name ("" while the key is absent)
    api_key,        \* the script's api_key in the latest run
    max_ctx,        \* the number_input's value
    system_prompt,  \* the text_area's value
    clear_btn,      \* the clear button's value in the latest run
    export_btn,     \* the export button's value in the latest run
    user_input,     \* st.chat_input's value in the latest run
    context,        \* the messages= argument of the latest run's request
    outcome,        \* what the provider did with the latest run's request
    calls,          \* completions.create calls made by the latest run
    raised,         \* whether the latest run ended in an uncaught exception
    download,       \* the data of the latest run's download button
    system_dropped  \* a request since the memory was last (re)created
                    \* went out without the system turn

vars == <<secrets, env, session_keys, messages, model_name, api_key, max_ctx,
          system_prompt, clear_btn, export_btn, user_input, context, outcome,
          calls, raised, download, system_dropped>>

---------------------------------------------------------------------------
(* Bounds of the model *)

\* longest memory a submission may produce
MaxMsgs == 9

\* largest window size the user picks besides the default
MaxK == 6

---------------------------------------------------------------------------
(* Program constants *)

\* number_input(min_value=4, ...)
MIN_CTX == 4

\* number_input(max_value=64, ...)
MAX_CTX == 64

\* number_input(value=24, ...)
DEFAULT_CTX == 24

\* "Eres un asistente útil y conciso. Responde en español por defecto. Si el
\* usuario pide código, respóndelo en bloques bien comentados."
DEFAULT_SYSTEM ==
    <<69, 114, 101, 115, 32, 117, 110, 32, 97, 115, 105, 115, 116, 101, 110,
      116, 101, 32, 250, 116, 105, 108, 32, 121, 32, 99, 111, 110, 99, 105,
      115, 111, 46, 32, 82, 101, 115, 112, 111, 110, 100, 101, 32, 101, 110,
      32, 101, 115, 112, 97, 241, 111, 108, 32, 112, 111, 114, 32, 100, 101,
      102, 101, 99, 116, 111, 46, 32, 83, 105, 32, 101, 108, 32, 117, 115,
      117, 97, 114, 105, 111, 32, 112, 105, 100, 101, 32, 99, 243, 100, 105,
      103, 111, 44, 32, 114, 101, 115, 112, 243, 110, 100, 101, 108, 111, 32,
      101, 110, 32, 98, 108, 111, 113, 117, 101, 115, 32, 98, 105, 101, 110,
      32, 99, 111, 109, 101, 110, 116, 97, 100, 111, 115, 46>>

\* "llama3-8b-8192"
DEFAULT_MODEL == "llama3-8b-8192"

\* "system"
ROLE_SYSTEM == <<115, 121, 115, 116, 101, 109>>

\* "user"
ROLE_USER == <<117, 115, 101, 114>>

\* "assistant"
ROLE_ASSISTANT == <<97, 115, 115, 105, 115, 116, 97, 110, 116>>

\* "Lo siento, ocurrió un error al llamar a Groq: `"
ERROR_PREFIX ==
    <<76, 111, 32, 115, 105, 101, 110, 116, 111, 44, 32, 111, 99, 117, 114,
      114, 105, 243, 32, 117, 110, 32, 101, 114, 114, 111, 114, 32, 97, 108,
      32, 108, 108, 97, 109, 97, 114, 32, 97, 32, 71, 114, 111, 113, 58, 32,
      96>>

\* "`"
ERROR_SUFFIX == <<96>>

\* ": "
ROLE_SEP == <<58, 32>>

\* "\n\n"
LINE_SEP == <<10, 10>>

---------------------------------------------------------------------------
(* Values the environment supplies *)

\* Python's None; no text equals it, since no code point is negative
None == <<-1>>

\* "gsk"
SomeKey == <<103, 115, 107>>

\* a secret store without the key, with an empty key, with a key
SecretValues == {None, <<>>, SomeKey}

\* an environment without the variable, with the variable
EnvValues == {None, SomeKey}

\* "hi"
UserTexts == {<<104, 105>>}

\* the bundled instruction and "S"
SystemTexts == {DEFAULT_SYSTEM, <<83>>}

\* "hello"
ReplyTexts == {<<104, 101, 108, 108, 111>>}

\* "timeout"
ErrorTexts == {<<116, 105, 109, 101, 111, 117, 116>>}

\* window sizes the user picks
CtxChoices == (MIN_CTX..MaxK) \cup {DEFAULT_CTX}

NoOutcome == [kind |-> "none", text |-> <<>>]

\* the provider answers, or the call raises an Exception described by text
Outcomes == [kind : {"ok"}, text : ReplyTexts] \cup
            [kind : {"raise"}, text : ErrorTexts]

---------------------------------------------------------------------------
(* Python helpers *)

Min(a, b) == IF a < b THEN a ELSE b

Max(a, b) == IF a > b THEN a ELSE b

\* bool(x) of an optional text
Truthy(x) == x # None /\ x # <<>>

\* s[:-i] for a negative i: the leading elements instead of the trailing ones
PySliceHead(s, i) == SubSeq(s, 1, Min(0 - i, Len(s)))

\* s[i:]
PySliceFrom(s, i) ==
    LET start == IF i < 0 THEN Max(Len(s) + i, 0) ELSE Min(i, Len(s))
    IN  SubSeq(s, start + 1, Len(s))

\* str.upper on ASCII text
Upper(t) == [i \in 1..Len(t) |-> IF t[i] \in 97..122 THEN t[i] - 32 ELSE t[i]]

RECURSIVE Join(_, _)
\* sep.join(lines)
Join(lines, sep) ==
    IF lines = <<>> THEN <<>>
    ELSE IF Len(lines) = 1 THEN lines[1]
    ELSE lines[1] \o sep \o Join(Tail(lines), sep)

Turn(role, content) == [role |-> role, content |-> content]

---------------------------------------------------------------------------
(* The script's pieces *)

get_api_key(sec, ev) == IF Truthy(sec) THEN sec ELSE ev

\* ensure_memory that re-seeds the memory when the instruction was edited
ensure_memory_resync(keys, msgs, sp) ==
    IF "messages" \notin keys \/ msgs[1].content # sp
    THEN <<Turn(ROLE_SYSTEM, sp)>> ELSE msgs

\* ensure_memory, the messages key
ensure_memory(keys, msgs, sp) ==
    IF "messages" \notin keys THEN <<Turn(ROLE_SYSTEM, sp)>> ELSE msgs

\* ensure_memory, the model_name key
ensure_model(keys, mn) ==
    IF "model_name" \notin keys THEN DEFAULT_MODEL ELSE mn

\* a clear that keeps the stored system turn
clear_keeping_system(msgs, clear, sp) ==
    IF clear THEN <<msgs[1]>> ELSE msgs

\* if clear_btn: ...
clear_memory(msgs, clear, sp) ==
    IF clear THEN <<Turn(ROLE_SYSTEM, sp)>> ELSE msgs

\* if model_name != st.session_state.model_name: ...
sync_model(mn, selected) == IF selected # mn THEN selected ELSE mn

\* the f-string of one exported line
ExportLine(m) == Upper(m.role) \o ROLE_SEP \o m.content

\* the lines loop without its continue
ExportLinesWithSystem(msgs) ==
    [i \in 1..Len(msgs) |-> ExportLine(msgs[i])]

\* the lines loop of the export branch
ExportLines(msgs) ==
    LET kept == SelectSeq(msgs, LAMBDA m : m.role # ROLE_SYSTEM)
    IN  [i \in 1..Len(kept) |-> ExportLine(kept[i])]

\* the data handed to st.download_button
ExportText(msgs) == Join(ExportLines(msgs), LINE_SEP)

\* if user_input:
HandledWithoutKey(input, key) == Truthy(input)

\* if user_input and api_key:
Handled(input, key) == Truthy(input) /\ Truthy(key)

\* st.session_state.messages.insert(0, ...)
InsertTurnFirst(msgs, role, content) == <<Turn(role, content)>> \o msgs

\* st.session_state.messages.append(...)
AppendTurn(msgs, role, content) == Append(msgs, Turn(role, content))

\* a window that re-prepends the system turn when it would fall out
WindowKeepingSystem(msgs, k) ==
    IF Len(msgs) > k
    THEN <<msgs[1]>> \o PySliceFrom(msgs, 0 - (k - 1))
    ELSE PySliceFrom(msgs, 0 - k)

\* st.session_state.messages[-int(max_ctx):]
Window(msgs, k) == PySliceFrom(msgs, -k)

\* an error message that leaves the exception out
ErrorReplyGeneric(e) == ERROR_PREFIX \o ERROR_SUFFIX

\* the except branch's f-string
ErrorReply(e) == ERROR_PREFIX \o e \o ERROR_SUFFIX

\* a second attempt after a failed call
InvokeWithRetry(o) ==
    IF o.kind = "ok"
    THEN [reply |-> o.text, raised |-> FALSE, calls |-> 1]
    ELSE [reply |-> ErrorReply(o.text), raised |-> FALSE, calls |-> 2]

\* the try/except around completions.create
Invoke(o) ==
    IF o.kind = "ok"
    THEN [reply |-> o.text, raised |-> FALSE, calls |-> 1]
    ELSE [reply |-> ErrorReply(o.text), raised |-> FALSE, calls |-> 1]

HasSystem(ctx) == \E i \in 1..Len(ctx) : ctx[i].role = ROLE_SYSTEM

\* one run of the script
Script(sp, k, clear, export, input, o) ==
    LET key == get_api_key(secrets, env)
        m0  == ensure_memory(session_keys, messages, sp)
        mn0 == ensure_model(session_keys, model_name)
        m1  == clear_memory(m0, clear, sp)
        h   == Handled(input, key)
        m2  == IF h THEN AppendTurn(m1, ROLE_USER, input) ELSE m1
        ctx == Window(m2, k)
        inv == Invoke(o)
        m3  == IF h /\ ~inv.raised
               THEN AppendTurn(m2, ROLE_ASSISTANT, inv.reply) ELSE m2
        fresh == "messages" \notin session_keys \/ clear
    IN  /\ api_key' = key
        /\ system_prompt' = sp
        /\ max_ctx' = k
        /\ clear_btn' = clear
        /\ export_btn' = export
        /\ user_input' = input
        /\ session_keys' = session_keys \cup {"messages", "model_name"}
        /\ model_name' = sync_model(mn0, DEFAULT_MODEL)
        /\ download' = IF export THEN ExportText(m1) ELSE None
        /\ messages' = m3
        /\ context' = IF h THEN ctx ELSE <<>>
        /\ outcome' = IF h THEN o ELSE NoOutcome
        /\ calls' = IF h THEN inv.calls ELSE 0
        /\ raised' = (h /\ inv.raised)
        /\ system_dropped' = \/ (~fresh /\ system_dropped)
                             \/ (h /\ ~HasSystem(ctx))
        /\ UNCHANGED <<secrets, env>>

---------------------------------------------------------------------------
(* Behaviour *)

Init ==
    /\ secrets \in SecretValues
    /\ env \in EnvValues
    /\ session_keys = {}
    /\ messages = <<>>
    /\ model_name = ""
    /\ api_key = None
    /\ max_ctx = DEFAULT_CTX
    /\ system_prompt = DEFAULT_SYSTEM
    /\ clear_btn = FALSE
    /\ export_btn = FALSE
    /\ user_input = None
    /\ context = <<>>
    /\ outcome = NoOutcome
    /\ calls = 0
    /\ raised = FALSE
    /\ download = None
    /\ system_dropped = FALSE

Loaded == "messages" \in session_keys

\* the page is opened: the session's first run
OpenPage ==
    /\ ~Loaded
    /\ Script(system_prompt, max_ctx, FALSE, FALSE, None, NoOutcome)

\* a run triggered by a widget that changes none of the values above (the
\* temperature slider, the download button)
Rerun ==
    /\ Loaded
    /\ Script(system_prompt, max_ctx, FALSE, FALSE, None, NoOutcome)

\* the system prompt text area is edited
EditSystemPrompt ==
    /\ Loaded
    /\ \E sp \in SystemTexts \ {system_prompt} :
           Script(sp, max_ctx, FALSE, FALSE, None, NoOutcome)

\* the window size is changed
SetMaxCtx ==
    /\ Loaded
    /\ \E k \in CtxChoices \ {max_ctx} :
           /\ MIN_CTX <= k /\ k <= MAX_CTX
           /\ Script(system_prompt, k, FALSE, FALSE, None, NoOutcome)

\* "Borrar memoria" is clicked
ClickClear ==
    /\ Loaded
    /\ Script(system_prompt, max_ctx, TRUE, FALSE, None, NoOutcome)

\* "Exportar chat" is clicked
ClickExport ==
    /\ Loaded
    /\ Script(system_prompt, max_ctx, FALSE, TRUE, None, NoOutcome)

\* a message is submitted in the chat input
SubmitChat ==
    /\ Loaded
    /\ Len(messages) + 2 <= MaxMsgs
    /\ \E u \in UserTexts, o \in Outcomes :
           Script(system_prompt, max_ctx, FALSE, FALSE, u, o)

\* the deployment's secret store is edited between runs
SecretsChange ==
    /\ \E s \in SecretValues \ {secrets} : secrets' = s
    /\ UNCHANGED <<env, session_keys, messages, model_name, api_key, max_ctx,
                   system_prompt, clear_btn, export_btn, user_input, context,
                   outcome, calls, raised, download, system_dropped>>

Next ==
    \/ OpenPage
    \/ Rerun
    \/ EditSystemPrompt
    \/ SetMaxCtx
    \/ ClickClear
    \/ ClickExport
    \/ SubmitChat
    \/ SecretsChange

Spec == Init /\ [][Next]_vars

---------------------------------------------------------------------------
(* Vocabulary of the properties *)

IsPrefix(a, b) == Len(a) <= Len(b) /\ SubSeq(b, 1, Len(a)) = a

\* e occurs in t as a substring
Contains(t, e) ==
    \E i \in 0..(Len(t) - Len(e)) : SubSeq(t, i + 1, i + Len(e)) = e

\* the step is a run of the script: no run touches the credential stores
RunStep == secrets' = secrets /\ env' = env

\* the run this step performs handles a submission
SubmitStep == RunStep /\ user_input' # None

\* the run this step performs handles a click on the clear button
ClearStep == RunStep /\ clear_btn'

\* ... with a credential resolved
HandledStep == SubmitStep /\ Truthy(api_key')

\* the memory right after the user's turn is appended
WithUserTurn == Append(messages, Turn(ROLE_USER, user_input'))

\* user, assistant, user, assistant, ... after the first element
Alternates(m) ==
    \A i \in 2..Len(m) :
        m[i].role = IF i % 2 = 0 THEN ROLE_USER ELSE ROLE_ASSISTANT

\* "USER" and "ASSISTANT", written out
UpperCased(role) ==
    IF role = ROLE_USER THEN <<85, 83, 69, 82>>
    ELSE IF role = ROLE_ASSISTANT THEN <<65, 83, 83, 73, 83, 84, 65, 78, 84>>
    ELSE <<83, 89, 83, 84, 69, 77>>

RECURSIVE Rendered(_)
\* the export, built turn by turn from the front
Rendered(msgs) ==
    IF msgs = <<>> THEN <<>>
    ELSE LET m    == Head(msgs)
             rest == Tail(msgs)
             more == \E i \in 1..Len(rest) : rest[i].role # ROLE_SYSTEM
         IN  IF m.role = ROLE_SYSTEM THEN Rendered(rest)
             ELSE UpperCased(m.role) \o <<58, 32>> \o m.content
                  \o (IF more THEN <<10, 10>> ELSE <<>>) \o Rendered(rest)

\* [{system,"S"},{user,"hi"},{assistant,"hello"}]
ExampleMemory ==
    << Turn(ROLE_SYSTEM, <<83>>), Turn(ROLE_USER, <<104, 105>>),
       Turn(ROLE_ASSISTANT, <<104, 101, 108, 108, 111>>) >>

\* "USER: hi\n\nASSISTANT: hello"
ExampleExport ==
    <<85, 83, 69, 82, 58, 32, 104, 105, 10, 10, 65, 83, 83, 73, 83, 84, 65,
      78, 84, 58, 32, 104, 101, 108, 108, 111>>

\* the stored history holds more than max_ctx - 1 non-system turns
Exceeds == Loaded /\ Len(messages) - 1 > max_ctx - 1

---------------------------------------------------------------------------
(* Properties *)

\* C1: in every run that handles a submission with a credential, with L the
\* length of the memory right after the user's turn is appended and K the
\* window size (4 <= K <= 64), the messages sent to the provider are the
\* last min(L, K) elements of that memory in order; with K > L that is the
\* whole memory, and nothing is raised.
C1_WindowDerivation ==
    [][ HandledStep =>
          LET mem == WithUserTurn
              L   == Len(mem)
              K   == max_ctx'
              n   == Min(L, K)
          IN  /\ MIN_CTX <= K /\ K <= MAX_CTX
              /\ Len(context') = n
              /\ \A j \in 1..n : context'[j] = mem[L - n + j]
              /\ (K > L => context' = mem)
              /\ ~raised' ]_vars

\* a request that was truncated to the window
C1_Witness ==
    /\ calls = 1
    /\ Len(context) = max_ctx
    /\ Len(messages) - 1 > max_ctx

\* C2: when the provider call of a handled submission raises an exception
\* described by e, the run does not raise, the memory ends two turns longer
\* (the user's turn, then one assistant turn), and the assistant turn's
\* content contains e.
C2_InvocationErrorPath ==
    [][ (HandledStep /\ outcome'.kind = "raise") =>
          LET n == Len(messages)
          IN  /\ ~raised'
              /\ Len(messages') = n + 2
              /\ SubSeq(messages', 1, n) = messages
              /\ messages'[n + 1] = Turn(ROLE_USER, user_input')
              /\ messages'[n + 2].role = ROLE_ASSISTANT
              /\ Contains(messages'[n + 2].content, outcome'.text) ]_vars

\* a failed call answered inside the conversation
C2_Witness ==
    /\ calls = 1
    /\ outcome.kind = "raise"
    /\ ~raised
    /\ messages[Len(messages)].role = ROLE_ASSISTANT
    /\ Contains(messages[Len(messages)].content, outcome.text)

C4_Reset ==
    [][ ClearStep =>
          /\ Len(messages') = 1
          /\ messages'[1] = Turn(ROLE_SYSTEM, system_prompt') ]_vars

\* a clear that replaced a longer memory and another system instruction:
\* the memory is created with the bundled instruction
C4_Witness ==
    /\ clear_btn
    /\ Len(messages) = 1
    /\ messages[1].content # DEFAULT_SYSTEM

\* C5: a run that does not reset keeps the memory it found as a prefix of
\* the memory it leaves, growing it by exactly its appends (two when it
\* handles a submission, none otherwise); the memory is always one system
\* turn followed by the appended user and assistant turns.
C5_AppendOnly ==
    [][ /\ (Loaded /\ ~ClearStep) =>
              /\ IsPrefix(messages, messages')
              /\ Len(messages') =
                     Len(messages) + (IF HandledStep THEN 2 ELSE 0)
        /\ Loaded' =>
              /\ Len(messages') >= 1
              /\ messages'[1].role = ROLE_SYSTEM
              /\ \A i \in 2..Len(messages') :
                     messages'[i].role \in {ROLE_USER, ROLE_ASSISTANT} ]_vars

\* four appends after the memory was created
C5_Witness ==
    /\ Loaded
    /\ ~clear_btn
    /\ calls = 1
    /\ Len(messages) = 5

\* C6: the export is the non-system turns in memory order, each as the
\* upper-cased role, ": " and the content, with a blank line between
\* consecutive turns and none at the end; the memory
\* [{system,S},{user,hi},{assistant,hello}] exports
\* "USER: hi\n\nASSISTANT: hello".
C6_Export ==
    export_btn =>
        /\ download = Rendered(messages)
        /\ (messages = ExampleMemory => download = ExampleExport)

\* the example memory, exported
C6_Witness ==
    /\ export_btn
    /\ messages = ExampleMemory
    /\ download = ExampleExport

\* C7: a run that finds a memory and neither resets nor handles a
\* submission leaves it exactly as it was, also when the configured system
\* instruction differs from the stored one, and no run but a reset drops or
\* rewrites what it found; a run that finds no memory creates
\* [{system, systemPrompt}].
C7_EnsureIdempotent ==
    [][ /\ (Loaded /\ ~ClearStep) => IsPrefix(messages, messages')
        /\ (Loaded /\ ~ClearStep /\ ~HandledStep) => messages' = messages
        /\ (~Loaded /\ Loaded') =>
               messages' = <<Turn(ROLE_SYSTEM, system_prompt')>> ]_vars

\* ensure ran with an instruction other than the stored one and kept the
\* conversation
C7_Witness ==
    /\ Loaded
    /\ ~clear_btn
    /\ messages[1].content # system_prompt
    /\ Len(messages) > 1

\* C8 as stated: the first element of the memory has role system and its
\* content is the system instruction currently configured.
C8_AsStated ==
    Loaded =>
        /\ messages[1].role = ROLE_SYSTEM
        /\ messages[1].content = system_prompt

\* C9 as stated: a handled submission's request contains the system turn
\* exactly when the memory with the user's turn is no longer than the
\* window; once a request went out without it, every later request until
\* the memory is reset goes out without it.
C9_AsStated ==
    [][ HandledStep =>
          /\ HasSystem(context') <=> Len(WithUserTurn) <= max_ctx'
          /\ (system_dropped /\ ~ClearStep) => ~HasSystem(context') ]_vars

\* C9 (amended): a handled submission's request contains the system turn,
\* as its first element, exactly when the memory with the user's turn is no
\* longer than the window; once the stored history exceeds N-1 non-system
\* turns it stays so, and every request goes out without the system turn,
\* until the memory is reset or the window size is raised.
C9_SystemTurnDropped ==
    [][ /\ HandledStep =>
              /\ HasSystem(context') <=> Len(WithUserTurn) <= max_ctx'
              /\ HasSystem(context') =>
                     /\ context'[1] = messages[1]
                     /\ context'[1].role = ROLE_SYSTEM
                     /\ \A i \in 2..Len(context') :
                            context'[i].role # ROLE_SYSTEM
        /\ (Exceeds /\ ~ClearStep /\ max_ctx' <= max_ctx) =>
              /\ Exceeds'
              /\ (HandledStep => ~HasSystem(context')) ]_vars

\* a request that went out without the system turn
C9_Witness ==
    /\ calls = 1
    /\ ~HasSystem(context)
    /\ system_dropped
    /\ messages[1].role = ROLE_SYSTEM

=============================================================================
